---- MODULE Spec2Model ----
(***************************************************************************)
(* A 3D cellular automaton on a cubic lattice (src/src/main.rs).           *)
(*                                                                         *)
(* Every cell is an entity whose identifier packs its coordinates          *)
(* (make_entity) and that carries a State, an ActiveNeighbors count and a  *)
(* Neighbors list (make_neighbors_component).  One update cycle (frame)    *)
(* runs count_neighbors_system in stage UPDATE, then update_state_system   *)
(* in stage "after_update", then the engine clears its change trackers.    *)
(*                                                                         *)
(* Time is counted in units of 0.2 s, so that the 0.6 s interval of the    *)
(* update timer is the integer 3.                                          *)
(***************************************************************************)
EXTENDS Integers, Sequences, FiniteSets, TLC

VARIABLES
    room_size,          \* GameSettings.room_size
    rules,              \* GameSettings.rules
    cells,              \* the cell entities, in the order setup_system spawned them
    state,              \* component State of every cell entity
    active_neighbors,   \* component ActiveNeighbors of every cell entity
    neighbors,          \* component Neighbors of every cell entity
    albedo,             \* albedo of the material of every cell entity
    mutated,            \* the engine's "ActiveNeighbors was mutated this frame" tracker
    timer,              \* resource UpdateTimer
    delta_seconds,      \* resource Time: the delta fed in the current frame
    pc,                 \* the stage the frame is about to run
    cache,              \* the local HashMap of the last pass of count_neighbors_system
    fallback,           \* identifiers whose world query failed in the last pass
    cache_start,        \* history: the HashMap as the last pass found it when it started
    stale_hits,         \* history: identifiers the last pass read from the HashMap with
                        \* a State other than the one the cell held at that moment
    evaluated,          \* cells update_state_system visited in the current frame, in order
    pre_state,          \* history: State of every cell when the current frame started
    init_state,         \* history: State of every cell after setup_system
    ever_fired,         \* history: the timer has finished at least once
    prev_fired,         \* history: the timer finished in the previous frame
    since_fire,         \* history: sum of the deltas fed since the last fire (capped)
    arg,                \* inputs of a direct call of a pure function
    ret                 \* its result, <<>> before the call

sim_vars == <<room_size, rules, cells, state, active_neighbors, neighbors, albedo,
              mutated, timer, delta_seconds, pc, cache, fallback, cache_start,
              stale_hits, evaluated, pre_state, init_state, ever_fired, prev_fired, since_fire>>

vars == <<sim_vars, arg, ret>>

(***************************************************************************)
(* Bounds of the model.                                                    *)
(***************************************************************************)
MaxRoomSize == 2        \* lattices of edge 1..MaxRoomSize are simulated
MaxInitActive == 4      \* at most this many cells start Active
MaxSeedCells == 5       \* only the first MaxSeedCells spawned cells may start Active
MaxDelta == 7           \* one frame feeds a delta of 0..MaxDelta time units
MaxFnRoomSize == 4      \* small edges given to make_neighbors_component directly
CoordMargin == 1        \* coordinates within this distance of a u8 limit are sampled
MaxRuleBound == 2       \* arbitrary rule ranges have their ends in 0..MaxRuleBound
MaxRotations == 1       \* visiting orders: spawn order and its reverse, rotated by 0..MaxRotations

(***************************************************************************)
(* Program constants.                                                      *)
(***************************************************************************)
U8Max == 255            \* largest u8
TimerDuration == 3      \* Timer::from_seconds(0.6, true), in units of 0.2 s

State == {"Active", "Inactive"}

Range(s) == {s[i] : i \in DOMAIN s}

(***************************************************************************)
(* 32-bit accumulator of make_entity, kept as its four bytes, most         *)
(* significant first.                                                      *)
(***************************************************************************)
RECURSIVE BitOr(_, _)
BitOr(a, b) ==
    IF a = 0 THEN b
    ELSE IF b = 0 THEN a
    ELSE (IF a % 2 = 1 \/ b % 2 = 1 THEN 1 ELSE 0) + 2 * BitOr(a \div 2, b \div 2)

\* id | v as u32, for a u8 v: only the low byte of the accumulator is touched
OrU8(id, v) == [id EXCEPT ![Len(id)] = BitOr(@, v)]

\* id << 8 at the accumulator's width: the top byte is shifted out
Shl8(id) == Tail(id) \o <<0>>

\* faulty variant: a 16-bit accumulator, whose shifts drop x and y
make_entity_u16(x, y, z) ==
    LET id0 == <<0, 0>>
        id1 == Shl8(OrU8(id0, x))
        id2 == Shl8(OrU8(id1, y))
        id3 == Shl8(OrU8(id2, z))
    IN  id3

make_entity(x, y, z) ==
    LET id0 == <<0, 0, 0, 0>>
        id1 == Shl8(OrU8(id0, x))
        id2 == Shl8(OrU8(id1, y))
        id3 == Shl8(OrU8(id2, z))
    IN  id3

(***************************************************************************)
(* make_neighbors_component: the 3x3x3 block around (x, y, z) is walked    *)
(* with dz outermost and dx innermost, in i16 arithmetic; a candidate is   *)
(* pushed when it lies in 0..room_size (exclusive) on every axis and is    *)
(* not the cell itself.                                                    *)
(***************************************************************************)
AsU8(v) == v % (U8Max + 1)

\* the k-th candidate (k in 1..27) of the three nested loops z-1..=z+1, y-1..=y+1, x-1..=x+1
Candidate(x, y, z, k) ==
    [dx |-> x - 1 + ((k - 1) % 3),
     dy |-> y - 1 + (((k - 1) \div 3) % 3),
     dz |-> z - 1 + ((k - 1) \div 9)]

\* Range<i16>::contains for bounds = 0..room_size as i16
BoundsContains(room, v) == 0 <= v /\ v < room

\* faulty variant: bounds = 0..=room_size
make_neighbors_component_inclusive(x, y, z, room) ==
    LET cand == [k \in 1..27 |-> Candidate(x, y, z, k)]
        Keep(c) == /\ 0 <= c.dx /\ c.dx <= room
                   /\ 0 <= c.dy /\ c.dy <= room
                   /\ 0 <= c.dz /\ c.dz <= room
                   /\ ~(x = c.dx /\ y = c.dy /\ z = c.dz)
        kept == SelectSeq(cand, Keep)
    IN  [i \in 1..Len(kept) |->
            make_entity(AsU8(kept[i].dx), AsU8(kept[i].dy), AsU8(kept[i].dz))]

\* faulty variant: loops z-1..z+1, y-1..y+1, x-1..x+1 (upper end excluded)
make_neighbors_component_halfopen(x, y, z, room) ==
    LET cand == [k \in 1..27 |-> Candidate(x, y, z, k)]
        Keep(c) == /\ BoundsContains(room, c.dx) /\ c.dx <= x
                   /\ BoundsContains(room, c.dy) /\ c.dy <= y
                   /\ BoundsContains(room, c.dz) /\ c.dz <= z
                   /\ ~(x = c.dx /\ y = c.dy /\ z = c.dz)
        kept == SelectSeq(cand, Keep)
    IN  [i \in 1..Len(kept) |->
            make_entity(AsU8(kept[i].dx), AsU8(kept[i].dy), AsU8(kept[i].dz))]

\* faulty variant: only the upper bound is tested, so -1 is cast to 255
make_neighbors_component_nolower(x, y, z, room) ==
    LET cand == [k \in 1..27 |-> Candidate(x, y, z, k)]
        Keep(c) == /\ c.dx < room
                   /\ c.dy < room
                   /\ c.dz < room
                   /\ ~(x = c.dx /\ y = c.dy /\ z = c.dz)
        kept == SelectSeq(cand, Keep)
    IN  [i \in 1..Len(kept) |->
            make_entity(AsU8(kept[i].dx), AsU8(kept[i].dy), AsU8(kept[i].dz))]

\* faulty variant: the cell itself is not excluded
make_neighbors_component_withself(x, y, z, room) ==
    LET cand == [k \in 1..27 |-> Candidate(x, y, z, k)]
        Keep(c) == /\ BoundsContains(room, c.dx)
                   /\ BoundsContains(room, c.dy)
                   /\ BoundsContains(room, c.dz)
        kept == SelectSeq(cand, Keep)
    IN  [i \in 1..Len(kept) |->
            make_entity(AsU8(kept[i].dx), AsU8(kept[i].dy), AsU8(kept[i].dz))]

make_neighbors_component(x, y, z, room) ==
    LET cand == [k \in 1..27 |-> Candidate(x, y, z, k)]
        Keep(c) == /\ BoundsContains(room, c.dx)
                   /\ BoundsContains(room, c.dy)
                   /\ BoundsContains(room, c.dz)
                   /\ ~(x = c.dx /\ y = c.dy /\ z = c.dz)
        kept == SelectSeq(cand, Keep)
    IN  [i \in 1..Len(kept) |->
            make_entity(AsU8(kept[i].dx), AsU8(kept[i].dy), AsU8(kept[i].dz))]

(***************************************************************************)
(* setup_system: for z, for y, for x: one cell entity per coordinate       *)
(* triple, spawned under the identifier make_entity(x, y, z).              *)
(***************************************************************************)
\* coordinates of the i-th spawned cell (i in 1..room^3)
SpawnCoord(room, i) ==
    [x |-> (i - 1) % room,
     y |-> ((i - 1) \div room) % room,
     z |-> (i - 1) \div (room * room)]

\* faulty variant: the identifier is built from x, x and z
SpawnOrder_xx(room) ==
    [i \in 1..(room * room * room) |->
        LET c == SpawnCoord(room, i) IN make_entity(c.x, c.x, c.z)]

SpawnOrder(room) ==
    [i \in 1..(room * room * room) |->
        LET c == SpawnCoord(room, i) IN make_entity(c.x, c.y, c.z)]

SpawnNeighbors(room) ==
    LET ids == SpawnOrder(room)
    IN  [e \in Range(ids) |->
            LET i == CHOOSE j \in DOMAIN ids : ids[j] = e
                c == SpawnCoord(room, i)
            IN  make_neighbors_component(c.x, c.y, c.z, room)]

\* what setup_system builds for each simulated edge: the cell entities in spawn
\* order and their Neighbors components
Lattice ==
    [room \in 1..MaxRoomSize |->
        [cells |-> SpawnOrder(room), neighbors |-> SpawnNeighbors(room)]]

\* GameSettings::map_state_to_color
map_state_to_color(s) == IF s = "Active" THEN "color_active" ELSE "color_inactive"

\* the rules main configures
ConfiguredRules ==
    [reproduction    |-> [start |-> 4, end |-> 5],
     underpopulation |-> [start |-> 0, end |-> 2],
     continuation    |-> [start |-> 2, end |-> 5],
     overpopulation  |-> [start |-> 5, end |-> 28]]

\* Range<u8>::contains
\* faulty variant: start..=end
Contains_inclusive(r, n) == r.start <= n /\ n <= r.end

Contains(r, n) == r.start <= n /\ n < r.end

(***************************************************************************)
(* The update timer.  Timer::tick is the game engine's: it is modelled     *)
(* from the description of the tick scheduler (accumulate the delta; on    *)
(* reaching the interval, finish and reset the accumulator; repeating).    *)
(***************************************************************************)
tick(t, d) ==
    IF t.elapsed + d >= TimerDuration
    THEN [elapsed |-> 0, finished |-> TRUE]
    ELSE [elapsed |-> t.elapsed + d, finished |-> FALSE]

\* if timer.0.finished: the pass runs only in a frame in which the timer finished
\* faulty variant: the pass runs in every frame
Gate_open(t) == TRUE

\* faulty variant: the test is inverted
Gate_inverted(t) == ~t.finished

Gate(t) == t.finished

(***************************************************************************)
(* count_neighbors_system, the body of the pass.                           *)
(* acc = [cache, fallback, stale, count]: the HashMap, the identifiers      *)
(* whose world query failed so far, the identifiers read so far from the   *)
(* HashMap with a State the cell did not hold, and the Active neighbours   *)
(* counted so far.                                                         *)
(***************************************************************************)
\* the closure given to map(), followed by the filter() on State::Active
\* faulty variant: a cache hit yields the default State::Active
MapNeighbor_hitdefault(entity, st, acc) ==
    IF entity \in DOMAIN acc.cache
    THEN [acc EXCEPT !.count = @ + 1,
                     !.stale = IF entity \in DOMAIN st /\ st[entity] # acc.cache[entity]
                               THEN @ \cup {entity} ELSE @]
    ELSE LET found == entity \in DOMAIN st
             s == IF found THEN st[entity] ELSE "Active"
         IN  [cache    |-> (entity :> s) @@ acc.cache,
              fallback |-> IF found THEN acc.fallback ELSE acc.fallback \cup {entity},
              stale    |-> acc.stale,
              count    |-> acc.count + (IF s = "Active" THEN 1 ELSE 0)]

MapNeighbor(entity, st, acc) ==
    IF entity \in DOMAIN acc.cache
    THEN [acc EXCEPT !.count = @ + (IF acc.cache[entity] = "Active" THEN 1 ELSE 0),
                     !.stale = IF entity \in DOMAIN st /\ st[entity] # acc.cache[entity]
                               THEN @ \cup {entity} ELSE @]
    ELSE LET found == entity \in DOMAIN st
             s == IF found THEN st[entity] ELSE "Active"
         IN  [cache    |-> (entity :> s) @@ acc.cache,
              fallback |-> IF found THEN acc.fallback ELSE acc.fallback \cup {entity},
              stale    |-> acc.stale,
              count    |-> acc.count + (IF s = "Active" THEN 1 ELSE 0)]

\* neighbors.0.iter() driven to its end; it = [i, acc]: the iterator's position
\* and the accumulator
RECURSIVE FoldNeighbors(_, _, _)
FoldNeighbors(ns, st, it) ==
    IF it.i > Len(ns) THEN it.acc
    ELSE FoldNeighbors(ns, st, [i |-> it.i + 1, acc |-> MapNeighbor(ns[it.i], st, it.acc)])

\* one iteration of the for loop: active_neighbors.0 = ... .count() as u8
\* faulty variant: the count is added to the one the cell holds (+= for =)
CountCell_addassign(c, st, nbrs, acc) ==
    LET r == FoldNeighbors(nbrs[c], st,
                 [i |-> 1,
                  acc |-> [cache |-> acc.cache, fallback |-> acc.fallback,
                           stale |-> acc.stale, count |-> acc.counts[c]]])
    IN  [cache    |-> r.cache,
         fallback |-> r.fallback,
         stale    |-> r.stale,
         counts   |-> [acc.counts EXCEPT ![c] = AsU8(r.count)]]

CountCell(c, st, nbrs, acc) ==
    LET r == FoldNeighbors(nbrs[c], st,
                 [i |-> 1,
                  acc |-> [cache |-> acc.cache, fallback |-> acc.fallback,
                           stale |-> acc.stale, count |-> 0]])
    IN  [cache    |-> r.cache,
         fallback |-> r.fallback,
         stale    |-> r.stale,
         counts   |-> [acc.counts EXCEPT ![c] = AsU8(r.count)]]

\* the for loop over cell_query, visiting the cells in the given order;
\* it = [i, acc]: the iterator's position and [cache, fallback, stale, counts]
RECURSIVE CountPass(_, _, _, _)
CountPass(order, st, nbrs, it) ==
    IF it.i > Len(order) THEN it.acc
    ELSE CountPass(order, st, nbrs,
             [i |-> it.i + 1, acc |-> CountCell(order[it.i], st, nbrs, it.acc)])

(***************************************************************************)
(* update_state_system, the body of the pass.                              *)
(***************************************************************************)
\* the if / else-if chain on one cell
\* faulty variant: overpopulation is tested before continuation
next_state_overfirst(r, s, n) ==
    IF s = "Active"
    THEN IF Contains(r.underpopulation, n) THEN "Inactive"
         ELSE IF Contains(r.overpopulation, n) THEN "Inactive"
         ELSE IF Contains(r.continuation, n) THEN "Active"
         ELSE "Active"
    ELSE IF Contains(r.reproduction, n) THEN "Active"
         ELSE "Inactive"

\* faulty variant: an Active cell whose count is in none of the three ranges dies
next_state_gapdies(r, s, n) ==
    IF s = "Active"
    THEN IF Contains(r.underpopulation, n) THEN "Inactive"
         ELSE IF Contains(r.continuation, n) THEN "Active"
         ELSE "Inactive"
    ELSE IF Contains(r.reproduction, n) THEN "Active"
         ELSE "Inactive"

next_state(r, s, n) ==
    IF s = "Active"
    THEN IF Contains(r.underpopulation, n) THEN "Inactive"
         ELSE IF Contains(r.continuation, n) THEN "Active"
         ELSE IF Contains(r.overpopulation, n) THEN "Inactive"
         ELSE "Active"
    ELSE IF Contains(r.reproduction, n) THEN "Active"
         ELSE "Inactive"

\* one iteration of the for loop; acc = [state, albedo]
\* faulty variant: the new state of the cell is written to every cell
UpdateCell_all(c, r, counts, acc) ==
    LET s == next_state(r, acc.state[c], counts[c])
    IN  [state  |-> [e \in DOMAIN acc.state |-> s],
         albedo |-> [e \in DOMAIN acc.albedo |-> map_state_to_color(s)]]

UpdateCell(c, r, counts, acc) ==
    LET s == next_state(r, acc.state[c], counts[c])
    IN  [state  |-> [acc.state EXCEPT ![c] = s],
         albedo |-> [acc.albedo EXCEPT ![c] = map_state_to_color(s)]]

\* the for loop over the cells whose ActiveNeighbors was mutated in this frame
\* cells.iter() for Query<(Mutated<ActiveNeighbors>, &mut State, ..)>: the cells,
\* in storage order, whose ActiveNeighbors was mutated in this frame
\* faulty variant: the query has no Mutated filter
MutatedCells_all(order, mut) == order

MutatedCells(order, mut) ==
    LET IsMutated(c) == mut[c] IN SelectSeq(order, IsMutated)

\* it = [i, acc]: the iterator's position and [state, albedo]
RECURSIVE UpdatePass(_, _, _, _)
UpdatePass(order, r, counts, it) ==
    IF it.i > Len(order) THEN it.acc
    ELSE UpdatePass(order, r, counts,
             [i |-> it.i + 1, acc |-> UpdateCell(order[it.i], r, counts, it.acc)])

(***************************************************************************)
(* The world after setup_system.                                           *)
(***************************************************************************)
\* the subsets of S with at most k elements
RECURSIVE SubsetsUpTo(_, _)
SubsetsUpTo(S, k) ==
    IF k = 0 THEN {{}}
    ELSE LET P == SubsetsUpTo(S, k - 1) IN P \cup {p \cup {e} : p \in P, e \in S}

\* the number of Active cells among the neighbours of c
ActiveAround(c, st, nbrs) ==
    Cardinality({i \in DOMAIN nbrs[c] : st[nbrs[c][i]] = "Active"})

\* the simulation variables for a lattice of edge room whose cells hold st and
\* counts, with the frame about to run the given stage
World(room, rls, st, counts, fired, stage) ==
    /\ room_size = room
    /\ rules = rls
    /\ cells = Lattice[room].cells
    /\ state = st
    /\ active_neighbors = counts
    /\ neighbors = Lattice[room].neighbors
    /\ albedo = [c \in DOMAIN st |-> map_state_to_color(st[c])]
    /\ mutated = [c \in DOMAIN st |-> fired]
    /\ timer = [elapsed |-> 0, finished |-> fired]
    /\ delta_seconds = IF fired THEN TimerDuration ELSE 0
    /\ pc = stage
    /\ cache = <<>>
    /\ fallback = {}
    /\ cache_start = <<>>
    /\ stale_hits = {}
    /\ evaluated = <<>>
    /\ pre_state = st
    /\ init_state = st
    /\ ever_fired = fired
    /\ prev_fired = FALSE
    /\ since_fire = IF fired THEN TimerDuration ELSE 0

\* the State assignments setup_system may draw (every cell is sampled
\* independently), within the bounds MaxSeedCells and MaxInitActive
InitialStates(room) ==
    LET order == Lattice[room].cells
        seeds == {order[i] : i \in {j \in DOMAIN order : j <= MaxSeedCells}}
    IN  {[c \in Range(order) |-> IF c \in A THEN "Active" ELSE "Inactive"] :
            A \in SubsetsUpTo(seeds, MaxInitActive)}

Init ==
    /\ \E room \in 1..MaxRoomSize :
         \E st \in InitialStates(room) :
            World(room, ConfiguredRules, st, [c \in DOMAIN st |-> 0], FALSE, "update")
    /\ arg = <<>>
    /\ ret = <<>>

(***************************************************************************)
(* One frame: stage UPDATE, stage "after_update", end of frame.            *)
(***************************************************************************)
\* let mut cache = HashMap::new(): the pass starts with a map of its own,
\* whatever the previous pass left in its map
\* faulty variant: the map outlives the pass
new_cache_kept(last) == last

new_cache(last) == <<>>

\* active_neighbors.0 = ..: the assignment goes through the mutable borrow, which
\* marks the component as mutated whatever the value written
\* faulty variant: only a value that differs from the old one marks the component
Touched_ifchanged(old, new) == old # new

Touched(old, new) == TRUE

\* faulty variant: one loop counts the neighbours and applies the rules at once
count_neighbors_system_merged(d) ==
    /\ pc = "update"
    /\ delta_seconds' = d
    /\ timer' = tick(timer, d)
    /\ IF Gate(timer')
       THEN LET r == CountPass(cells, state, neighbors,
                        [i |-> 1,
                         acc |-> [cache |-> new_cache(cache), fallback |-> {},
                                  stale |-> {}, counts |-> active_neighbors]])
                u == UpdatePass(cells, rules, r.counts,
                        [i |-> 1, acc |-> [state |-> state, albedo |-> albedo]])
            IN  /\ active_neighbors' = r.counts
                /\ mutated' = [c \in DOMAIN mutated |-> FALSE]
                /\ cache' = r.cache
                /\ fallback' = r.fallback
                /\ cache_start' = new_cache(cache)
                /\ stale_hits' = r.stale
                /\ state' = u.state
                /\ albedo' = u.albedo
       ELSE /\ UNCHANGED <<active_neighbors, mutated, state, albedo>>
            /\ cache' = <<>>
            /\ fallback' = {}
            /\ cache_start' = <<>>
            /\ stale_hits' = {}
    /\ pc' = "after_update"
    /\ evaluated' = <<>>
    /\ pre_state' = state
    /\ ever_fired' = (ever_fired \/ timer'.finished)
    /\ prev_fired' = timer.finished
    /\ since_fire' = (IF timer.finished THEN 0 ELSE since_fire) + d
    /\ UNCHANGED <<room_size, rules, cells, neighbors, init_state, arg, ret>>

count_neighbors_system(d) ==
    /\ pc = "update"
    /\ delta_seconds' = d
    /\ timer' = tick(timer, d)
    /\ IF Gate(timer')
       THEN LET r == CountPass(cells, state, neighbors,
                        [i |-> 1,
                         acc |-> [cache |-> new_cache(cache), fallback |-> {},
                                  stale |-> {}, counts |-> active_neighbors]])
            IN  /\ active_neighbors' = r.counts
                /\ mutated' = [c \in DOMAIN mutated |->
                                  mutated[c] \/ Touched(active_neighbors[c], r.counts[c])]
                /\ cache' = r.cache
                /\ fallback' = r.fallback
                /\ cache_start' = new_cache(cache)
                /\ stale_hits' = r.stale
       ELSE /\ UNCHANGED <<active_neighbors, mutated>>
            /\ cache' = <<>>
            /\ fallback' = {}
            /\ cache_start' = <<>>
            /\ stale_hits' = {}
    /\ pc' = "after_update"
    /\ evaluated' = <<>>
    /\ pre_state' = state
    /\ ever_fired' = (ever_fired \/ timer'.finished)
    /\ prev_fired' = timer.finished
    /\ since_fire' = (IF timer.finished THEN 0 ELSE since_fire) + d
    /\ UNCHANGED <<room_size, rules, cells, state, neighbors, albedo, init_state, arg, ret>>

update_state_system ==
    /\ pc = "after_update"
    /\ LET order == MutatedCells(cells, mutated)
           r == UpdatePass(order, rules, active_neighbors,
                    [i |-> 1, acc |-> [state |-> state, albedo |-> albedo]])
       IN  /\ state' = r.state
           /\ albedo' = r.albedo
           /\ evaluated' = order
    /\ pc' = "end_frame"
    /\ UNCHANGED <<room_size, rules, cells, active_neighbors, neighbors, mutated, timer,
                   delta_seconds, cache, fallback, cache_start, stale_hits, pre_state,
                   init_state, ever_fired,
                   prev_fired, since_fire, arg, ret>>

\* the engine clears the mutation trackers once the schedule has run
clear_trackers ==
    /\ pc = "end_frame"
    /\ mutated' = [c \in DOMAIN mutated |-> FALSE]
    /\ pc' = "update"
    /\ UNCHANGED <<room_size, rules, cells, state, active_neighbors, neighbors, albedo,
                   timer, delta_seconds, cache, fallback, cache_start, stale_hits,
                   evaluated, pre_state,
                   init_state, ever_fired, prev_fired, since_fire, arg, ret>>

Next ==
    \/ \E d \in 0..MaxDelta : count_neighbors_system(d)
    \/ update_state_system
    \/ clear_trackers

Spec == Init /\ [][Next]_vars

(***************************************************************************)
(* The running application: App::run keeps calling the schedule, so a      *)
(* frame that has started completes and another follows; the clock         *)
(* advances, so frames with a positive delta keep arriving.  Every step    *)
(* of Next moves pc to the next stage, and the fairness is stated on that. *)
(***************************************************************************)
\* the runner moves the frame on to its next stage
FrameAdvances == pc' \in {"update", "after_update", "end_frame"} /\ pc' # pc

\* stage UPDATE runs in a frame whose delta is positive
PositiveFrame ==
    /\ pc = "update"
    /\ pc' = "after_update"
    /\ delta_seconds' \in 1..MaxDelta

SpecLive == Init /\ [][Next]_vars /\ WF_pc(FrameAdvances) /\ SF_pc(PositiveFrame)

(***************************************************************************)
(* Direct calls of the two pure functions, on sampled inputs.              *)
(***************************************************************************)
\* the edges tried: the small ones and the largest a u8 room_size allows
FnRooms == (1..MaxFnRoomSize) \cup {U8Max}

\* the coordinates tried for an edge: those near 0 and near room - 1
FnCoords(room) ==
    {v \in 0..(room - 1) : v <= CoordMargin \/ v >= room - 1 - CoordMargin}

FnTriples(room) == FnCoords(room) \X FnCoords(room) \X FnCoords(room)

\* the world while only pure functions are called: nothing is simulated
Idle == World(1, ConfiguredRules, [c \in Range(Lattice[1].cells) |-> "Inactive"],
              [c \in Range(Lattice[1].cells) |-> 0], FALSE, "idle")

InitFn ==
    /\ Idle
    /\ \E fn \in {"make_entity", "make_neighbors_component"} :
         \E room \in FnRooms :
            \E a \in FnTriples(room), b \in FnTriples(room) :
                arg = [fn |-> fn, room |-> room, a |-> a, b |-> b]
    /\ ret = <<>>

CallMakeEntity ==
    /\ arg.fn = "make_entity"
    /\ ret = <<>>
    /\ ret' = [a |-> make_entity(arg.a[1], arg.a[2], arg.a[3]),
               b |-> make_entity(arg.b[1], arg.b[2], arg.b[3])]
    /\ UNCHANGED <<sim_vars, arg>>

CallMakeNeighbors ==
    /\ arg.fn = "make_neighbors_component"
    /\ ret = <<>>
    /\ ret' = [a |-> make_neighbors_component(arg.a[1], arg.a[2], arg.a[3], arg.room),
               b |-> make_neighbors_component(arg.b[1], arg.b[2], arg.b[3], arg.room)]
    /\ UNCHANGED <<sim_vars, arg>>

NextFn == CallMakeEntity \/ CallMakeNeighbors

SpecFn == InitFn /\ [][NextFn]_vars

(***************************************************************************)
(* The Rule Engine pass on its own: update_state_system run on a world in  *)
(* which the counts have just been written.                                *)
(***************************************************************************)
\* ranges with their ends in 0..MaxRuleBound (start = end is an empty range)
SmallRanges ==
    {[start |-> a, end |-> b] : a \in 0..MaxRuleBound, b \in 0..MaxRuleBound}
        \ {r \in [start : 0..MaxRuleBound, end : 0..MaxRuleBound] : r.start > r.end}

SmallRules ==
    [reproduction : SmallRanges, underpopulation : SmallRanges,
     continuation : SmallRanges, overpopulation : SmallRanges]

\* one cell, any rules with small ranges, any count the ranges can tell apart
InitRuleSmall ==
    \E rls \in SmallRules :
      \E st \in [Range(Lattice[1].cells) -> State] :
        \E counts \in [Range(Lattice[1].cells) -> 0..MaxRuleBound] :
            World(1, rls, st, counts, TRUE, "after_update")

\* one cell, the configured rules, any u8 count
InitRuleConfigured ==
    \E st \in [Range(Lattice[1].cells) -> State] :
      \E counts \in [Range(Lattice[1].cells) -> 0..U8Max] :
            World(1, ConfiguredRules, st, counts, TRUE, "after_update")

\* a lattice on which count_neighbors_system has just counted, at the first fire
InitRuleLattice ==
    \E room \in 1..MaxRoomSize :
      \E st \in InitialStates(room) :
            World(room, ConfiguredRules, st,
                  [c \in DOMAIN st |-> ActiveAround(c, st, Lattice[room].neighbors)],
                  TRUE, "after_update")

InitRule ==
    /\ InitRuleSmall \/ InitRuleConfigured \/ InitRuleLattice
    /\ arg = <<>>
    /\ ret = <<>>

NextRule == update_state_system \/ clear_trackers

SpecRule == InitRule /\ [][NextRule]_vars

(***************************************************************************)
(* One fired frame run on a lattice whose cells the two queries visit in   *)
(* given orders: the engine does not promise the order of cells.iter().    *)
(***************************************************************************)
Reverse(q) == [i \in 1..Len(q) |-> q[Len(q) + 1 - i]]

Rotate(q, k) == [i \in 1..Len(q) |-> q[((i - 1 + k) % Len(q)) + 1]]

\* the visiting orders tried for a lattice
VisitOrders(room) ==
    LET q == Lattice[room].cells
    IN  {Rotate(q, k) : k \in 0..MaxRotations}
            \cup {Rotate(Reverse(q), k) : k \in 0..MaxRotations}

\* the pass of count_neighbors_system followed by the pass of update_state_system,
\* from the states st, each visiting the cells in its own order
OneTick(room, st, count_order, rule_order) ==
    LET nbrs == Lattice[room].neighbors
        old == [c \in DOMAIN st |-> 0]
        n == CountPass(count_order, st, nbrs,
                 [i |-> 1,
                  acc |-> [cache |-> new_cache(<<>>), fallback |-> {},
                           stale |-> {}, counts |-> old]])
        mut == [c \in DOMAIN st |-> Touched(old[c], n.counts[c])]
        u == UpdatePass(MutatedCells(rule_order, mut), ConfiguredRules, n.counts,
                 [i |-> 1,
                  acc |-> [state |-> st,
                           albedo |-> [c \in DOMAIN st |-> map_state_to_color(st[c])]]])
    IN  [counts |-> n.counts, state |-> u.state, albedo |-> u.albedo]

\* two runs of the same frame from the same states: run a counts in order o1 and
\* applies the rules in order o2, run b does the opposite
InitTick ==
    /\ Idle
    /\ \E room \in 1..MaxRoomSize :
         \E st \in InitialStates(room) :
            \E o1 \in VisitOrders(room), o2 \in VisitOrders(room) :
                arg = [fn |-> "tick", room |-> room, st |-> st,
                       a |-> [count |-> o1, rule |-> o2],
                       b |-> [count |-> o2, rule |-> o1]]
    /\ ret = <<>>

CallTick ==
    /\ arg.fn = "tick"
    /\ ret = <<>>
    /\ ret' = [a |-> OneTick(arg.room, arg.st, arg.a.count, arg.a.rule),
               b |-> OneTick(arg.room, arg.st, arg.b.count, arg.b.rule)]
    /\ UNCHANGED <<sim_vars, arg>>

NextTick == CallTick

SpecTick == InitTick /\ [][NextTick]_vars

(***************************************************************************)
(* Properties.                                                             *)
(***************************************************************************)
\* the frame in progress (or just completed) is one in which the timer fired
Fired == timer.finished

\* C1 (Spec): synchronous update. Once the Neighbor Counter has run in a fired
\* frame, and for the rest of that frame (also after the Rule Engine has written
\* the new states), the count of every cell is the number of cells of its
\* neighbour list that were Active when the frame started.
C1_SynchronousUpdate ==
    Fired =>
        \A c \in DOMAIN active_neighbors :
            active_neighbors[c] = ActiveAround(c, pre_state, neighbors)

\* C1 witness: a fired frame whose Rule Engine pass has changed some state while
\* some cell holds a non-zero count taken from the pre-tick states.
C1_Witness ==
    /\ Fired
    /\ pc = "end_frame"
    /\ state # pre_state
    /\ \E c \in DOMAIN active_neighbors :
          /\ active_neighbors[c] > 0
          /\ active_neighbors[c] # ActiveAround(c, state, neighbors)

\* C2 (SpecRule): rule correctness under the configured rules. After a Rule
\* Engine pass, a cell that was Active with count n in 0..26 is Active iff
\* 2 <= n < 5, and a cell that was Inactive is Active iff n = 4.
C2_RuleCorrectness ==
    (pc = "end_frame" /\ rules = ConfiguredRules) =>
        \A c \in Range(evaluated) :
            LET n == active_neighbors[c] IN
            n <= 26 =>
                /\ pre_state[c] = "Active" =>
                      (state[c] = "Active" <=> (2 <= n /\ n < 5))
                /\ pre_state[c] = "Inactive" =>
                      (state[c] = "Active" <=> n = 4)

\* C2 witness: an Inactive cell with exactly 4 active neighbours has become Active.
C2_Witness ==
    /\ pc = "end_frame"
    /\ rules = ConfiguredRules
    /\ \E c \in Range(evaluated) :
          /\ pre_state[c] = "Inactive"
          /\ active_neighbors[c] = 4
          /\ state[c] = "Active"

\* C3 (Spec): tick gating, no fire, no mutation. In a frame in which the time
\* accumulated since the previous fire is below the interval, the timer does not
\* finish and no step changes any cell's state or count; and as long as the timer
\* has never finished every cell holds its initial state.
C3_NoFireNoMutation ==
    [][ /\ since_fire' < TimerDuration =>
              /\ ~timer'.finished
              /\ state' = state
              /\ active_neighbors' = active_neighbors
        /\ ~ever_fired' => state' = init_state' ]_vars

\* C3 witness: a frame that fed a positive delta has run both stages without a
\* fire, after an earlier fire, on a lattice that has Active cells.
C3_Witness ==
    /\ pc = "end_frame"
    /\ ~Fired
    /\ ever_fired
    /\ delta_seconds > 0
    /\ since_fire < TimerDuration
    /\ \E c \in DOMAIN state : state[c] = "Active"

\* C4 (Spec): exactly one tick per fire. A frame in which the accumulated time
\* reaches the interval fires; in a fired frame the Neighbor Counter marks every
\* cell, the Rule Engine then evaluates every cell exactly once, and the
\* accumulator is reset; the frame right after a fire, fed a zero delta, does not
\* fire, marks no cell and evaluates none.
C4_OneTickPerFire ==
    /\ (since_fire >= TimerDuration) <=> Fired
    /\ Fired => timer.elapsed = 0
    /\ (Fired /\ pc = "after_update") =>
          /\ \A c \in DOMAIN mutated : mutated[c]
          /\ evaluated = <<>>
    /\ (Fired /\ pc = "end_frame") => evaluated = cells
    /\ (prev_fired /\ delta_seconds = 0 /\ pc # "update") =>
          /\ ~Fired
          /\ \A c \in DOMAIN mutated : ~mutated[c]
          /\ evaluated = <<>>

\* C4 witness: a frame fed a delta of at least two intervals has fired and run
\* both passes.
C4_Witness ==
    /\ pc = "end_frame"
    /\ Fired
    /\ delta_seconds >= 2 * TimerDuration
    /\ evaluated = cells
    /\ Len(cells) > 1

\* C5 (SpecFn): codec injectivity. make_entity maps two distinct coordinate
\* triples to distinct identifiers, and the identifier's four bytes are x, y, z, 0:
\* the three 8-bit shifts of the 32-bit accumulator drop no bit.
C5_CodecInjective ==
    (ret # <<>> /\ arg.fn = "make_entity") =>
        /\ arg.a # arg.b => ret.a # ret.b
        /\ ret.a = <<arg.a[1], arg.a[2], arg.a[3], 0>>
        /\ ret.b = <<arg.b[1], arg.b[2], arg.b[3], 0>>

\* C5 witness: two triples of the largest lattice that differ only in x, one of
\* them with the largest x, have been encoded.
C5_Witness ==
    /\ ret # <<>>
    /\ arg.fn = "make_entity"
    /\ arg.room = U8Max
    /\ arg.a[1] = U8Max - 1
    /\ arg.b[1] # arg.a[1]
    /\ arg.a[2] = arg.b[2]
    /\ arg.a[3] = arg.b[3]

\* how many coordinates of the triple t lie on the boundary of a lattice of edge room
OnBoundary(t, room) == Cardinality({i \in 1..3 : t[i] = 0 \/ t[i] = room - 1})

\* the length a neighbour list must have, for room >= 3
ExpectedLen(t, room) ==
    CASE OnBoundary(t, room) = 3 -> 7
      [] OnBoundary(t, room) = 2 -> 11
      [] OnBoundary(t, room) = 1 -> 17
      [] OTHER -> 26

\* C6 (SpecFn): neighbour count bounds. A list built by make_neighbors_component
\* has at most 26 elements; for room_size >= 3 it has 7 elements for a corner cell,
\* 11 for an edge cell, 17 for a face cell and 26 for an interior cell.
C6_NeighborCountBounds ==
    (ret # <<>> /\ arg.fn = "make_neighbors_component") =>
        /\ Len(ret.a) <= 26
        /\ Len(ret.b) <= 26
        /\ arg.room >= 3 =>
              /\ Len(ret.a) = ExpectedLen(arg.a, arg.room)
              /\ Len(ret.b) = ExpectedLen(arg.b, arg.room)

\* C6 witness: in one lattice of edge >= 3, the lists of an interior cell and of a
\* corner cell have been built.
C6_Witness ==
    /\ ret # <<>>
    /\ arg.fn = "make_neighbors_component"
    /\ arg.room >= 3
    /\ OnBoundary(arg.a, arg.room) = 0
    /\ Len(ret.a) = 26
    /\ OnBoundary(arg.b, arg.room) = 3
    /\ Len(ret.b) = 7

\* C7 (SpecFn): neighbour symmetry. For two cells A and B of one lattice, B's
\* identifier is in A's list iff A's identifier is in B's list.
C7_NeighborSymmetry ==
    (ret # <<>> /\ arg.fn = "make_neighbors_component") =>
        (make_entity(arg.b[1], arg.b[2], arg.b[3]) \in Range(ret.a)
            <=> make_entity(arg.a[1], arg.a[2], arg.a[3]) \in Range(ret.b))

\* C7 witness: a corner cell A and an adjacent non-corner cell B, each in the
\* other's list.
C7_Witness ==
    /\ ret # <<>>
    /\ arg.fn = "make_neighbors_component"
    /\ arg.room >= 3
    /\ OnBoundary(arg.a, arg.room) = 3
    /\ OnBoundary(arg.b, arg.room) < 3
    /\ make_entity(arg.b[1], arg.b[2], arg.b[3]) \in Range(ret.a)
    /\ make_entity(arg.a[1], arg.a[2], arg.a[3]) \in Range(ret.b)

\* the premise of the fixed-point claim, on the states and counts the pass read
C8_Premise ==
    \A c \in DOMAIN pre_state :
        /\ pre_state[c] = "Active" => Contains(rules.continuation, active_neighbors[c])
        /\ pre_state[c] = "Inactive" => ~Contains(rules.reproduction, active_neighbors[c])

\* C8 as stated (SpecRule): for any rule ranges, if every Active cell's count lies
\* in continuation and every Inactive cell's count lies outside reproduction, the
\* Rule Engine pass leaves every state as it was.
C8_AsStated ==
    (pc = "end_frame" /\ C8_Premise) => state = pre_state

\* C8 amended (SpecRule): for any rule ranges, if every Active cell's count lies in
\* continuation and outside underpopulation, and every Inactive cell's count lies
\* outside reproduction, the Rule Engine pass leaves every state as it was.
C8_FixedPoint ==
    (/\ pc = "end_frame"
     /\ C8_Premise
     /\ \A c \in DOMAIN pre_state :
           pre_state[c] = "Active" =>
               ~Contains(rules.underpopulation, active_neighbors[c]))
        => state = pre_state

\* C8 witness: the pass has run on a cell that was Active with a count lying both
\* in continuation and in overpopulation, but not in underpopulation.
C8_Witness ==
    /\ pc = "end_frame"
    /\ C8_Premise
    /\ evaluated = cells
    /\ \E c \in DOMAIN pre_state :
          /\ pre_state[c] = "Active"
          /\ Contains(rules.overpopulation, active_neighbors[c])
          /\ ~Contains(rules.underpopulation, active_neighbors[c])

\* C9 (Spec): closed identifier space. Every element of every neighbour list is
\* the identifier of a spawned cell; no world query of a pass fails, so the
\* fallback State::Active is never counted or cached, and every cached state is
\* the looked-up cell's own.
C9_ClosedIdentifierSpace ==
    /\ \A c \in DOMAIN neighbors : Range(neighbors[c]) \subseteq Range(cells)
    /\ fallback = {}
    /\ DOMAIN cache \subseteq Range(cells)
    /\ pc = "after_update" => \A e \in DOMAIN cache : cache[e] = state[e]

\* C9 witness: a pass has looked up and cached Inactive and Active neighbours.
C9_Witness ==
    /\ Fired
    /\ pc = "after_update"
    /\ \E e \in DOMAIN cache : cache[e] = "Inactive"
    /\ \E e \in DOMAIN cache : cache[e] = "Active"

\* the identifiers of the in-bounds triples within one step of t on every axis, t excluded
Around(t, room) ==
    {make_entity(u[1], u[2], u[3]) :
        u \in {v \in (0..(room - 1)) \X (0..(room - 1)) \X (0..(room - 1)) :
                 /\ v # t
                 /\ \A i \in 1..3 : v[i] - t[i] \in {-1, 0, 1}}}

\* the same set, enumerated from the 3x3x3 block (for large edges)
AroundBlock(t, room) ==
    {make_entity(u[1], u[2], u[3]) :
        u \in {v \in ((t[1] - 1)..(t[1] + 1)) \X ((t[2] - 1)..(t[2] + 1))
                        \X ((t[3] - 1)..(t[3] + 1)) :
                 /\ v # t
                 /\ \A i \in 1..3 : 0 <= v[i] /\ v[i] < room}}

NoDuplicates(q) == \A i, j \in DOMAIN q : q[i] = q[j] => i = j

\* C10 (SpecFn): neighbour table exactness. The list built for an in-bounds cell
\* has no duplicate, does not contain the cell's own identifier, and its elements
\* are exactly the identifiers of the in-bounds triples within one step on every
\* axis, also at the coordinates 0 and room_size - 1.
C10_NeighborTableExact ==
    (ret # <<>> /\ arg.fn = "make_neighbors_component") =>
        /\ NoDuplicates(ret.a)
        /\ make_entity(arg.a[1], arg.a[2], arg.a[3]) \notin Range(ret.a)
        /\ Range(ret.a) = AroundBlock(arg.a, arg.room)
        /\ arg.room <= MaxFnRoomSize => Range(ret.a) = Around(arg.a, arg.room)
        /\ NoDuplicates(ret.b)
        /\ make_entity(arg.b[1], arg.b[2], arg.b[3]) \notin Range(ret.b)
        /\ Range(ret.b) = AroundBlock(arg.b, arg.room)
        /\ arg.room <= MaxFnRoomSize => Range(ret.b) = Around(arg.b, arg.room)

\* C10 witness: in the largest lattice, the list of a cell with one coordinate 0
\* and another room_size - 1 has been built.
C10_Witness ==
    /\ ret # <<>>
    /\ arg.fn = "make_neighbors_component"
    /\ arg.room = U8Max
    /\ arg.a[1] = 0
    /\ arg.a[2] = arg.room - 1
    /\ Len(ret.a) > 0

\* the cell entities are one per coordinate triple of the lattice, and every
\* per-cell component is held by exactly these entities
LatticeShape ==
    /\ Len(cells) = room_size * room_size * room_size
    /\ NoDuplicates(cells)
    /\ Range(cells) =
          {make_entity(t[1], t[2], t[3]) :
              t \in (0..(room_size - 1)) \X (0..(room_size - 1)) \X (0..(room_size - 1))}
    /\ DOMAIN state = Range(cells)
    /\ DOMAIN active_neighbors = Range(cells)
    /\ DOMAIN neighbors = Range(cells)

\* C11 (Spec): fixed lattice. After initialization and in every later state the
\* cells are exactly one per coordinate triple of [0, room_size)^3, room_size^3
\* of them with pairwise distinct identifiers; no step of an update cycle creates
\* or destroys a cell or changes the neighbour list of a cell.
C11_FixedLattice ==
    /\ []LatticeShape
    /\ [][/\ cells' = cells
          /\ neighbors' = neighbors
          /\ room_size' = room_size]_vars

\* C11 witness: the largest lattice, at the end of a fired frame whose Rule Engine
\* pass has moved the states away from the initial ones.
C11_Witness ==
    /\ room_size = MaxRoomSize
    /\ ever_fired
    /\ pc = "end_frame"
    /\ state # init_state
    /\ Len(cells) = MaxRoomSize * MaxRoomSize * MaxRoomSize

\* C12 (SpecTick): a completed tick is one synchronous automaton step, whatever
\* the visiting orders. From any pre-tick states S, with any order in the Neighbor
\* Counter pass and any order in the Rule Engine pass, the count of every cell c
\* is the number of its neighbours Active in S and its post-tick state is the
\* rule applied to S(c) and that number; two runs from the same S with different
\* orders end in the same assignment.
C12_OrderIndependentStep ==
    (ret # <<>> /\ arg.fn = "tick") =>
        /\ ret.a = ret.b
        /\ \A c \in DOMAIN arg.st :
              LET n == ActiveAround(c, arg.st, Lattice[arg.room].neighbors)
              IN  /\ ret.a.counts[c] = n
                  /\ ret.a.state[c] = next_state(ConfiguredRules, arg.st[c], n)

\* C12 witness: in the largest lattice, two runs that visit the cells in different
\* orders in both passes have completed a tick that changed some state.
C12_Witness ==
    /\ ret # <<>>
    /\ arg.fn = "tick"
    /\ arg.room = MaxRoomSize
    /\ arg.a.count # arg.a.rule
    /\ arg.a.count[1] # arg.a.rule[1]
    /\ ret.a.state # arg.st
    /\ ret.b.state # arg.st

\* C13 (Spec): pass ordering. The Rule Engine writes a state only in stage
\* "after_update" of a fired frame, when the Neighbor Counter has written the
\* count of every cell from the states of that moment, and it writes no count;
\* the Neighbor Counter writes counts only in stage UPDATE and writes no state;
\* when a frame starts, no Rule Engine pass is pending: every tracker is cleared
\* and, if the previous frame fired, its Rule Engine pass has visited every cell.
C13_PassOrdering ==
    /\ [](pc = "update" =>
            /\ \A c \in DOMAIN mutated : ~mutated[c]
            /\ Fired => evaluated = cells)
    /\ [][/\ state' # state =>
                /\ pc = "after_update"
                /\ Fired
                /\ \A c \in DOMAIN state :
                      /\ mutated[c]
                      /\ active_neighbors[c] = ActiveAround(c, state, neighbors)
                /\ active_neighbors' = active_neighbors
          /\ active_neighbors' # active_neighbors =>
                /\ pc = "update"
                /\ state' = state
                /\ evaluated' = <<>>]_vars

\* C13 witness: two fired frames in a row, the Rule Engine pass of the second
\* having changed some state after its Neighbor Counter pass changed some count.
C13_Witness ==
    /\ Fired
    /\ prev_fired
    /\ pc = "end_frame"
    /\ state # pre_state
    /\ \E c \in DOMAIN state :
          active_neighbors[c] # ActiveAround(c, state, neighbors)

\* C14 (SpecRule): rule priority order and gap default, for any rule ranges. After
\* a Rule Engine pass every evaluated cell holds a state; a cell that was Active
\* is still Active iff its count is outside underpopulation and is either inside
\* continuation or outside overpopulation (so continuation wins over
\* overpopulation, and a count in none of the three ranges keeps the cell
\* Active); a cell that was Inactive is Active iff its count is in reproduction.
C14_RulePriority ==
    pc = "end_frame" =>
        \A c \in Range(evaluated) :
            LET n == active_neighbors[c]
                under == Contains(rules.underpopulation, n)
                cont == Contains(rules.continuation, n)
                over == Contains(rules.overpopulation, n)
                repro == Contains(rules.reproduction, n)
            IN  /\ state[c] \in State
                /\ pre_state[c] = "Active" =>
                      (state[c] = "Active" <=> (~under /\ (cont \/ ~over)))
                /\ pre_state[c] = "Inactive" =>
                      (state[c] = "Active" <=> repro)

\* C14 witness: under rules other than the configured ones, an Active cell whose
\* count is in continuation and in overpopulation, but not in underpopulation,
\* has stayed Active.
C14_Witness ==
    /\ pc = "end_frame"
    /\ rules # ConfiguredRules
    /\ \E c \in Range(evaluated) :
          /\ pre_state[c] = "Active"
          /\ ~Contains(rules.underpopulation, active_neighbors[c])
          /\ Contains(rules.continuation, active_neighbors[c])
          /\ Contains(rules.overpopulation, active_neighbors[c])
          /\ state[c] = "Active"

\* C15 (Spec): single writer, once per tick. Only the Rule Engine pass changes a
\* state, and only of cells it evaluates in that pass; in a fired frame the
\* Neighbor Counter marks the count of every cell as rewritten and the Rule
\* Engine then evaluates every cell exactly once; in a frame without a fire it
\* evaluates no cell.
C15_SingleWriterOncePerTick ==
    /\ []((pc = "after_update" /\ Fired) => \A c \in Range(cells) : mutated[c])
    /\ [](pc = "end_frame" =>
            IF Fired
            THEN /\ Len(evaluated) = Len(cells)
                 /\ NoDuplicates(evaluated)
                 /\ Range(evaluated) = Range(cells)
            ELSE evaluated = <<>>)
    /\ [][state' # state =>
                /\ pc = "after_update"
                /\ pc' = "end_frame"
                /\ \A c \in DOMAIN state :
                      state'[c] # state[c] => c \in Range(evaluated')]_vars

\* C15 witness: in the largest lattice, a fired frame has ended in which a cell
\* whose count was rewritten with the value it already had, 0, was evaluated along
\* with a cell whose state changed.
C15_Witness ==
    /\ room_size = MaxRoomSize
    /\ Fired
    /\ pc = "end_frame"
    /\ init_state = pre_state
    /\ \E c, e \in Range(evaluated) :
          /\ active_neighbors[c] = 0
          /\ state[e] # pre_state[e]

\* C16 (Spec): frame of the Neighbor Counter. The step of stage UPDATE leaves the
\* state, the material and the neighbour list of every cell, and the set of
\* cells, as they were: of the per-cell fields it modifies only the count.
C16_CounterFrame ==
    [][pc = "update" =>
          /\ state' = state
          /\ neighbors' = neighbors
          /\ albedo' = albedo
          /\ cells' = cells
          /\ DOMAIN active_neighbors' = DOMAIN active_neighbors]_vars

\* C16 witness: in the largest lattice, a Neighbor Counter pass of a tick later
\* than the first has just written a non-zero count.
C16_Witness ==
    /\ room_size = MaxRoomSize
    /\ pc = "after_update"
    /\ Fired
    /\ state # init_state
    /\ \E c \in DOMAIN active_neighbors : active_neighbors[c] > 0

\* C17 (Spec): frame of the Rule Engine. The step of stage "after_update" leaves
\* the count and the neighbour list of every cell as they were, and the
\* evaluation of one cell changes the state and material of no other cell.
C17_RuleEngineFrame ==
    /\ [](pc = "after_update" =>
            \A c \in Range(MutatedCells(cells, mutated)) :
                LET r == UpdateCell(c, rules, active_neighbors,
                                    [state |-> state, albedo |-> albedo])
                IN  \A e \in DOMAIN state \ {c} :
                        r.state[e] = state[e] /\ r.albedo[e] = albedo[e])
    /\ [][pc = "after_update" =>
              /\ active_neighbors' = active_neighbors
              /\ neighbors' = neighbors
              /\ cells' = cells
              /\ \A e \in DOMAIN state \ Range(evaluated') :
                    state'[e] = state[e] /\ albedo'[e] = albedo[e]]_vars

\* C17 witness: a Rule Engine pass has changed the state of one cell and kept
\* that of another, whose count is not zero.
C17_Witness ==
    /\ pc = "end_frame"
    /\ Fired
    /\ \E c, e \in Range(evaluated) :
          /\ state[c] # pre_state[c]
          /\ state[e] = pre_state[e]
          /\ active_neighbors[e] > 0

\* C18 (Spec): the cache is scoped to one pass and never stale. Every Neighbor
\* Counter pass starts with an empty cache, so no entry of one tick is read in
\* the next; no read of the cache during a pass returns a state other than the
\* one the cell holds at that moment; the entries the pass leaves are the states
\* the cells held during the pass, for exactly the identifiers looked up; and
\* the counts written are those a direct lookup of every neighbour gives.
C18_CacheTickScoped ==
    /\ cache_start = <<>>
    /\ stale_hits = {}
    /\ (Fired /\ pc # "update") =>
          /\ \A e \in DOMAIN cache : cache[e] = pre_state[e]
          /\ DOMAIN cache = UNION {Range(neighbors[c]) : c \in Range(cells)}
          /\ \A c \in Range(cells) :
                active_neighbors[c] =
                    Cardinality({i \in DOMAIN neighbors[c] :
                                    pre_state[neighbors[c][i]] = "Active"})
    /\ (~Fired /\ pc # "update") => cache = <<>>

\* C18 witness: the second of two fired frames in a row, after its Neighbor
\* Counter pass: the cache holds, for some cell, a state other than the one the
\* cell held in the previous pass.
C18_Witness ==
    /\ Fired
    /\ prev_fired
    /\ pc = "after_update"
    /\ since_fire = delta_seconds
    /\ \E e \in DOMAIN cache : cache[e] # init_state[e]

\* C19 (SpecLive): the scheduler repeats and has no terminal state. While frames
\* with a positive delta keep arriving, again and again a frame fires and runs
\* a whole tick; a fire does not leave the timer finished for good: every fire
\* takes an interval of time accumulated since the previous one, and after any
\* fire another follows.
C19_SchedulerLive ==
    /\ []<>(pc = "end_frame" /\ Fired /\ evaluated = cells)
    /\ (pc = "end_frame" /\ Fired) ~> (pc = "after_update" /\ Fired)
    /\ [][(pc = "update" /\ timer'.finished) =>
              /\ since_fire' >= TimerDuration
              /\ timer'.elapsed = 0]_vars

\* C19 witness: a fire that follows an earlier one, with a frame without a fire
\* in between, has run its tick.
C19_Witness ==
    /\ pc = "end_frame"
    /\ Fired
    /\ ~prev_fired
    /\ evaluated = cells
    /\ pre_state # init_state
    /\ since_fire >= TimerDuration

\* C20 (Spec): count range. In every reachable state the count of every cell is
\* between 0 and the length of its neighbour list, which is at most 26; the
\* count written in a fired frame is the untruncated number of Active
\* neighbours, so the conversion to u8 drops nothing; and the count lies in
\* [0, 28), the domain the configured rule ranges cover.
C20_CountRange ==
    \A c \in Range(cells) :
        /\ 0 <= active_neighbors[c]
        /\ active_neighbors[c] <= Len(neighbors[c])
        /\ Len(neighbors[c]) <= 26
        /\ Len(neighbors[c]) <= U8Max
        /\ Fired => active_neighbors[c] = ActiveAround(c, pre_state, neighbors)
        /\ \/ Contains(ConfiguredRules.underpopulation, active_neighbors[c])
           \/ Contains(ConfiguredRules.continuation, active_neighbors[c])
           \/ Contains(ConfiguredRules.overpopulation, active_neighbors[c])

\* C20 witness: in the largest lattice, a cell all of whose neighbours were Active
\* holds the largest count its neighbour list allows.
C20_Witness ==
    /\ room_size = MaxRoomSize
    /\ Fired
    /\ \E c \in Range(cells) :
          /\ Len(neighbors[c]) > 0
          /\ active_neighbors[c] = Len(neighbors[c])

====
